---- MODULE Spec2Model ----
(***************************************************************************)
(* hackvm: a translator from the stack VM language to Hack assembly.       *)
(*                                                                         *)
(* Two specifications share this module.                                   *)
(*   Spec      the translation run of main.rs: VMTranslator::new, then     *)
(*             write_prelude, then per input file update_filestem and      *)
(*             write_asm for each line.                                    *)
(*   ExecSpec  the Hack machine executing, one instruction per step, the   *)
(*             assembly that the same translator operators emit for a set  *)
(*             of input programs.                                          *)
(*                                                                         *)
(* Assembly text is kept line by line: every line of an emitted string is  *)
(* one record, "@x" an A-instruction, "(x)" a label definition, anything   *)
(* else a C-instruction dest=comp;jump.                                    *)
(***************************************************************************)
EXTENDS Integers, Sequences, FiniteSets, TLC

VARIABLES
    \* VMTranslator (lib.rs 9-14)
    writer,      \* what has been written: one element per writeln!, each a sequence of lines
    next_jump,   \* u16
    ret_idx,     \* u16
    filestem,    \* String
    buf,         \* BufWriter: the number of bytes it holds that have not reached the file
    out,         \* the number of bytes that have reached the file
    \* main / write_file_asm (main.rs)
    mode,        \* "file" | "dir": which branch of main runs
    at,          \* where main is: "new", "prelude", "lines", "done", "failed", "panicked"
    infiles,     \* dir mode: the files the for loop has not reached yet
    curfile,     \* the stem of the file whose lines are being translated ("" before any)
    log,         \* history: one entry per write_prelude / write_asm call of the run
    lineno,      \* write_file_asm: n of enumerate(), the index of the next line of the file
    nread,       \* history: the number of lines read so far, over all files
    failure,     \* << >>, or the one error (Err returned by main, or panic) that ended the run
    \* the target machine (ExecSpec)
    rom, symtab, blocks, pc, A, D, ram, hist, frames, lastret

tvars == <<writer, next_jump, ret_idx, filestem, buf, out>>
dvars == <<mode, at, infiles, curfile, log, lineno, nread, failure>>
mvars == <<rom, symtab, blocks, pc, A, D, ram, hist, frames, lastret>>
vars == <<writer, next_jump, ret_idx, filestem, buf, out,
          mode, at, infiles, curfile, log, lineno, nread, failure,
          rom, symtab, blocks, pc, A, D, ram, hist, frames, lastret>>

(***************************************************************************)
(* Bounds of the model.                                                    *)
(***************************************************************************)
MaxLines == 2
MaxBlocks == 40
MaxArgs == 2
MaxLocals == 2

U16 == 65536

\* BufWriter::new: the default capacity, in bytes
BufCapacity == 8192

(***************************************************************************)
(* Assembly lines.                                                         *)
(***************************************************************************)
AtN(n) == [op |-> "@", k |-> "num", n |-> n, s |-> ""]
AtS(s) == [op |-> "@", k |-> "sym", n |-> 0, s |-> s]
Lbl(s) == [op |-> "L", k |-> "sym", n |-> 0, s |-> s]
C(dest, comp) == [op |-> "C", dest |-> dest, comp |-> comp, jump |-> ""]
J(comp, jump) == [op |-> "C", dest |-> "", comp |-> comp, jump |-> jump]

\* "@SP\nA=M\nM=D\n@SP\nM=M+1\n": the tail every push ends with
PushD == << AtS("SP"), C("A", "M"), C("M", "D"), AtS("SP"), C("M", "M+1") >>
\* "@SP\nM=M-1\nA=M\nD=M\n": the head every pop starts with
PopD == << AtS("SP"), C("M", "M-1"), C("A", "M"), C("D", "M") >>

(***************************************************************************)
(* Commands (lib.rs 28-56).                                                *)
(***************************************************************************)
Push(seg, off) == [op |-> "Push", seg |-> seg, off |-> off]
Pop(seg, off) == [op |-> "Pop", seg |-> seg, off |-> off]
Op(o) == [op |-> o]
Label(name) == [op |-> "Label", name |-> name]
Goto(name) == [op |-> "Goto", name |-> name]
IfGoto(name) == [op |-> "IfGoto", name |-> name]
Function(name, n) == [op |-> "Function", name |-> name, n |-> n]
Call(name, n) == [op |-> "Call", name |-> name, n |-> n]

MemorySegment == {"Local", "Argument", "This", "That", "Constant", "Static", "Temp", "Pointer"}

\* MemorySegment::to_label; it panics on the other four segments
to_label(seg) ==
    CASE seg = "Local" -> "LCL"
      [] seg = "Argument" -> "ARG"
      [] seg = "This" -> "THIS"
      [] seg = "That" -> "THAT"
      [] OTHER -> "panic"

\* verify_offset with the Static bound one too high
verify_offset_static_239(command) ==
    IF command.op \in {"Push", "Pop"}
    THEN CASE command.seg = "Static" -> ~(command.off > 239)
           [] command.seg = "Temp" -> ~(command.off > 7)
           [] command.seg = "Pointer" -> (command.off >= 0 /\ command.off <= 1)
           [] OTHER -> TRUE
    ELSE TRUE

\* Command::verify_offset: TRUE when it returns, FALSE when it panics
verify_offset(command) ==
    IF command.op \in {"Push", "Pop"}
    THEN CASE command.seg = "Static" -> ~(command.off > 238)
           [] command.seg = "Temp" -> ~(command.off > 7)
           [] command.seg = "Pointer" -> (command.off >= 0 /\ command.off <= 1)
           [] OTHER -> TRUE
    ELSE TRUE

\* the static symbol without the file's name
static_label_no_stem(stem, offset) == "static." \o ToString(offset)

\* format!("{}.{}", self.filestem, offset)
static_label(stem, offset) == stem \o "." \o ToString(offset)

\* jump_labels with the second label formatted after the counter has advanced
jump_labels_end_after_increment(nj) ==
    << "JUMP_START_" \o ToString(nj), "JUMP_END_" \o ToString(nj + 1) >>

\* VMTranslator::jump_labels
jump_labels(nj) == << "JUMP_START_" \o ToString(nj), "JUMP_END_" \o ToString(nj) >>

\* the Push arm of write_asm
push_asm(stem, segment, offset) ==
    CASE segment = "Constant" -> << AtN(offset), C("D", "A") >> \o PushD
      [] segment = "Static" -> << AtS(static_label(stem, offset)), C("D", "M") >> \o PushD
      [] segment = "Temp" -> << AtN(5 + offset), C("D", "M") >> \o PushD
      [] segment = "Pointer" ->
            IF offset = 0
            THEN << AtS("THIS"), C("D", "M") >> \o PushD
            ELSE << AtS("THAT"), C("D", "M") >> \o PushD
      [] OTHER -> << AtN(offset), C("D", "A"), AtS(to_label(segment)), C("A", "D+M"),
                     C("D", "M") >> \o PushD

\* the Pop arm without its Constant case
pop_panics_never(segment) == FALSE

\* the Pop arm of write_asm; Constant panics and has no text
pop_panics(segment) == segment = "Constant"

\* the Pop arm computing the target address in D and losing it to the popped value
pop_asm_no_staging(stem, segment, offset) ==
    CASE segment = "Static" -> PopD \o << AtS(static_label(stem, offset)), C("M", "D") >>
      [] segment = "Temp" -> PopD \o << AtN(5 + offset), C("M", "D") >>
      [] segment = "Pointer" ->
            IF offset = 0
            THEN PopD \o << AtS("THIS"), C("M", "D") >>
            ELSE PopD \o << AtS("THAT"), C("M", "D") >>
      [] OTHER -> << AtN(offset), C("D", "A"), AtS(to_label(segment)), C("D", "D+M") >>
                  \o PopD \o << C("A", "D"), C("M", "D") >>

\* the Pop arm staging the base address without adding the offset
pop_asm_base_only(stem, segment, offset) ==
    CASE segment = "Static" -> PopD \o << AtS(static_label(stem, offset)), C("M", "D") >>
      [] segment = "Temp" -> PopD \o << AtN(5 + offset), C("M", "D") >>
      [] segment = "Pointer" ->
            IF offset = 0
            THEN PopD \o << AtS("THIS"), C("M", "D") >>
            ELSE PopD \o << AtS("THAT"), C("M", "D") >>
      [] OTHER -> << AtS(to_label(segment)), C("D", "M"), AtS("R13"), C("M", "D") >>
                  \o PopD \o << AtS("R13"), C("A", "M"), C("M", "D") >>

pop_asm(stem, segment, offset) ==
    CASE segment = "Static" -> PopD \o << AtS(static_label(stem, offset)), C("M", "D") >>
      [] segment = "Temp" -> PopD \o << AtN(5 + offset), C("M", "D") >>
      [] segment = "Pointer" ->
            IF offset = 0
            THEN PopD \o << AtS("THIS"), C("M", "D") >>
            ELSE PopD \o << AtS("THAT"), C("M", "D") >>
      [] OTHER -> << AtS(to_label(segment)), C("D", "M"), AtS("R13"), C("M", "D"),
                     AtN(offset), C("D", "A"), AtS("R13"), C("M", "D+M") >>
                  \o PopD \o << AtS("R13"), C("A", "M"), C("M", "D") >>

\* the binary operations combining the operands the other way round
binary_asm_swapped(comp) ==
    PopD \o << AtS("SP"), C("M", "M-1"), C("A", "M"),
               C("M", IF comp = "M-D" THEN "D-M" ELSE comp), AtS("SP"), C("M", "M+1") >>

\* Add, Sub, Or, And: the four differ in the combining line only
binary_asm(comp) ==
    PopD \o << AtS("SP"), C("M", "M-1"), C("A", "M"), C("M", comp), AtS("SP"), C("M", "M+1") >>

\* Neg, Not
unary_asm(comp) ==
    << AtS("SP"), C("M", "M-1"), C("A", "M"), C("M", comp), AtS("SP"), C("M", "M+1") >>

\* Eq, Lt, Gt: the three differ in the jump only
compare_asm(labels, jump) ==
    PopD \o << AtS("SP"), C("M", "M-1"), C("A", "M"), C("D", "M-D"),
               AtS(labels[1]), J("D", jump), AtS("SP"), C("A", "M"), C("M", "0"),
               AtS(labels[2]), J("0", "JMP"),
               Lbl(labels[1]), AtS("SP"), C("A", "M"), C("M", "-1"),
               Lbl(labels[2]), AtS("SP"), C("M", "M+1") >>

RECURSIVE function_locals(_)
function_locals(n) ==
    IF n = 0 THEN << >>
    ELSE << AtS("SP"), C("A", "M"), C("M", "0"), AtS("SP"), C("M", "M+1") >>
         \o function_locals(n - 1)

\* Function initialising one local fewer than declared
function_asm_one_short(name, n_local_vars) ==
    << Lbl(name) >> \o function_locals(IF n_local_vars = 0 THEN 0 ELSE n_local_vars - 1)

function_asm(name, n_local_vars) == << Lbl(name) >> \o function_locals(n_local_vars)

\* "@R13\nD=M\n@k\nD=D-A\nA=D\nD=M\n@reg\nM=D\n"
restore_asm(k, reg) ==
    << AtS("R13"), C("D", "M"), AtN(k), C("D", "D-A"), C("A", "D"), C("D", "M"),
       AtS(reg), C("M", "D") >>

\* Return reading the return address only after the return value has been stored
return_asm_late_return_address ==
    << AtS("LCL"), C("D", "M"), AtS("R13"), C("M", "D") >>
    \o PopD \o << AtS("ARG"), C("A", "M"), C("M", "D") >>
    \o << AtS("ARG"), C("D", "M+1"), AtS("SP"), C("M", "D") >>
    \o restore_asm(1, "THAT")
    \o restore_asm(2, "THIS")
    \o restore_asm(3, "ARG")
    \o restore_asm(4, "LCL")
    \o << AtS("R13"), C("D", "M"), AtN(5), C("D", "D-A"), C("A", "D"), C("A", "M"),
          J("0", "JMP") >>

\* Return leaving the stack pointer at the return value instead of one past it
return_asm_sp_at_arg ==
    << AtS("LCL"), C("D", "M"), AtS("R13"), C("M", "D") >>
    \o << AtN(5), C("D", "D-A"), C("A", "D"), C("D", "M"), AtS("R14"), C("M", "D") >>
    \o PopD \o << AtS("ARG"), C("A", "M"), C("M", "D") >>
    \o << AtS("ARG"), C("D", "M"), AtS("SP"), C("M", "D") >>
    \o restore_asm(1, "THAT")
    \o restore_asm(2, "THIS")
    \o restore_asm(3, "ARG")
    \o restore_asm(4, "LCL")
    \o << AtS("R14"), C("A", "M"), J("0", "JMP") >>

return_asm ==
    << AtS("LCL"), C("D", "M"), AtS("R13"), C("M", "D") >>
    \o << AtN(5), C("D", "D-A"), C("A", "D"), C("D", "M"), AtS("R14"), C("M", "D") >>
    \o PopD \o << AtS("ARG"), C("A", "M"), C("M", "D") >>
    \o << AtS("ARG"), C("D", "M+1"), AtS("SP"), C("M", "D") >>
    \o restore_asm(1, "THAT")
    \o restore_asm(2, "THIS")
    \o restore_asm(3, "ARG")
    \o restore_asm(4, "LCL")
    \o << AtS("R14"), C("A", "M"), J("0", "JMP") >>

\* the return-address label without the call-site counter
ret_addr_without_index(func_name, ri) == func_name \o "$ret"

\* format!("{}$ret.{}", func_name, self.ret_idx)
ret_addr(func_name, ri) == func_name \o "$ret." \o ToString(ri)

\* the call sequence repositioning ARG without allowing for the five saved words
call_asm_arg_above_frame(func_name, n_args, ri) ==
    << AtS(ret_addr(func_name, ri)), C("D", "A") >> \o PushD
    \o << AtS("LCL"), C("D", "M") >> \o PushD
    \o << AtS("ARG"), C("D", "M") >> \o PushD
    \o << AtS("THIS"), C("D", "M") >> \o PushD
    \o << AtS("THAT"), C("D", "M") >> \o PushD
    \o << AtS("SP"), C("D", "M"), AtS("LCL"), C("M", "D") >>
    \o << AtS("SP"), C("D", "M"), AtN(n_args), C("D", "D-A"), AtS("ARG"), C("M", "D") >>
    \o << AtS(func_name), J("0", "JMP") >>
    \o << Lbl(ret_addr(func_name, ri)) >>

\* the text translate_func_call returns
call_asm(func_name, n_args, ri) ==
    << AtS(ret_addr(func_name, ri)), C("D", "A") >> \o PushD
    \o << AtS("LCL"), C("D", "M") >> \o PushD
    \o << AtS("ARG"), C("D", "M") >> \o PushD
    \o << AtS("THIS"), C("D", "M") >> \o PushD
    \o << AtS("THAT"), C("D", "M") >> \o PushD
    \o << AtS("SP"), C("D", "M"), AtS("LCL"), C("M", "D") >>
    \o << AtS("SP"), C("D", "M"), AtN(n_args), C("D", "D-A"), AtN(5), C("D", "D-A"),
          AtS("ARG"), C("M", "D") >>
    \o << AtS(func_name), J("0", "JMP") >>
    \o << Lbl(ret_addr(func_name, ri)) >>

\* self.next_jump += 1, self.ret_idx += 1 on a u16
IncU16(x) == (x + 1) % U16

(***************************************************************************)
(* The translator as a value: [writer, next_jump, ret_idx, filestem, buf,  *)
(* out], and panic, "" until a call panics.  writer is everything written  *)
(* to the BufWriter, buf and out count the bytes of it that are still in   *)
(* the buffer and that have reached the file.                              *)
(***************************************************************************)
\* VMTranslator::new
new(stem) ==
    [writer |-> << >>, next_jump |-> 0, ret_idx |-> 0, filestem |-> stem,
     buf |-> 0, out |-> 0, panic |-> ""]

\* the text of one assembly line
LineText(line) ==
    CASE line.op = "@" -> "@" \o (IF line.k = "num" THEN ToString(line.n) ELSE line.s)
      [] line.op = "L" -> "(" \o line.s \o ")"
      [] line.op = "C" ->
            (IF line.dest = "" THEN "" ELSE line.dest \o "=") \o line.comp
            \o (IF line.jump = "" THEN "" ELSE ";" \o line.jump)

\* the length in bytes of a text whose every line ends with "\n"
RECURSIVE AsmBytes(_)
AsmBytes(asm) ==
    IF asm = << >> THEN 0 ELSE Len(LineText(Head(asm))) + 1 + AsmBytes(Tail(asm))

\* BufWriter::write_all of n bytes: they go to the buffer when they fit; otherwise the
\* buffer is written out first, and n bytes that fill a whole buffer go straight to
\* the file
write_all(t, n) ==
    IF n < BufCapacity - t.buf THEN [t EXCEPT !.buf = t.buf + n]
    ELSE LET t1 == IF n > BufCapacity - t.buf
                   THEN [t EXCEPT !.out = t.out + t.buf, !.buf = 0]
                   ELSE t
         IN IF n >= BufCapacity
            THEN [t1 EXCEPT !.out = t1.out + n]
            ELSE [t1 EXCEPT !.buf = t1.buf + n]

\* Drop for VMTranslator leaving the buffer as it is
drop_without_flush(t) == t

\* Drop for VMTranslator (lib.rs 376-382): self.writer.flush()
drop(t) == [t EXCEPT !.out = t.out + t.buf, !.buf = 0]

\* translate_func_call without self.ret_idx += 1
translate_func_call_no_increment(t, func_name, n_args) ==
    [asm |-> call_asm(func_name, n_args, t.ret_idx), t |-> t]

\* VMTranslator::translate_func_call: the text, and self with ret_idx advanced
translate_func_call(t, func_name, n_args) ==
    [asm |-> call_asm(func_name, n_args, t.ret_idx),
     t |-> [t EXCEPT !.ret_idx = IncU16(t.ret_idx)]]

\* writeln!(self.writer, "{}", asm) for an asm of n bytes: the text, then "\n"
write_str(t, asm, n) ==
    write_all(write_all([t EXCEPT !.writer = Append(t.writer, asm)], n), 1)

\* writeln!(self.writer, "{}", asm), asm ending with "\n" as all texts but the
\* comparisons' do
writeln(t, asm) == write_str(t, asm, AsmBytes(asm))

\* the message of the panic write_asm ends with on a command it rejects
panic_message(command) ==
    IF ~verify_offset(command)
    THEN CASE command.seg = "Static" ->
                "Received offset out of STATIC range (238 reg)  " \o ToString(command.off)
           [] command.seg = "Temp" ->
                "Received offset out of TEMP range (8 reg)  " \o ToString(command.off)
           [] command.seg = "Pointer" ->
                "POINTER offset can be either 0 or 1 | Received " \o ToString(command.off)
    ELSE "Pop operation cannot be performed for a constant"

\* VMTranslator::write_asm
write_asm(t, command) ==
    IF ~verify_offset(command) THEN [t EXCEPT !.panic = "range"]
    ELSE CASE command.op = "Push" ->
                writeln(t, push_asm(t.filestem, command.seg, command.off))
           [] command.op = "Pop" ->
                IF pop_panics(command.seg) THEN [t EXCEPT !.panic = "constant"]
                ELSE writeln(t, pop_asm(t.filestem, command.seg, command.off))
           [] command.op = "Add" -> writeln(t, binary_asm("D+M"))
           [] command.op = "Sub" -> writeln(t, binary_asm("M-D"))
           [] command.op = "Neg" -> writeln(t, unary_asm("-M"))
           [] command.op = "Not" -> writeln(t, unary_asm("!M"))
           [] command.op = "Or" -> writeln(t, binary_asm("D|M"))
           [] command.op = "And" -> writeln(t, binary_asm("D&M"))
           [] command.op = "Eq" ->
                write_str([t EXCEPT !.next_jump = IncU16(t.next_jump)],
                          compare_asm(jump_labels(t.next_jump), "JEQ"),
                          AsmBytes(compare_asm(jump_labels(t.next_jump), "JEQ")) - 1)
           [] command.op = "Lt" ->
                write_str([t EXCEPT !.next_jump = IncU16(t.next_jump)],
                          compare_asm(jump_labels(t.next_jump), "JLT"),
                          AsmBytes(compare_asm(jump_labels(t.next_jump), "JLT")) - 1)
           [] command.op = "Gt" ->
                write_str([t EXCEPT !.next_jump = IncU16(t.next_jump)],
                          compare_asm(jump_labels(t.next_jump), "JGT"),
                          AsmBytes(compare_asm(jump_labels(t.next_jump), "JGT")) - 1)
           [] command.op = "Function" -> writeln(t, function_asm(command.name, command.n))
           [] command.op = "Call" ->
                LET r == translate_func_call(t, command.name, command.n)
                IN writeln(r.t, r.asm)
           [] command.op = "Return" -> writeln(t, return_asm)
           [] command.op = "Label" -> writeln(t, << Lbl(command.name) >>)
           [] command.op = "Goto" -> writeln(t, << AtS(command.name), J("0", "JMP") >>)
           [] command.op = "IfGoto" -> writeln(t, PopD \o << AtS(command.name), J("D", "JNE") >>)

\* VMTranslator::write_prelude
write_prelude(t) ==
    LET boot == << AtN(256), C("D", "A"), AtS("SP"), C("M", "D") >>
        \* "@256\nD=A\n@SP\nM=D\n\n": one more "\n" than its lines
        t1 == write_str(t, boot, AsmBytes(boot) + 1)
        r == translate_func_call(t1, "Sys.init", 0)
    IN writeln(r.t, r.asm)

\* update_filestem building a fresh translator state for the file
update_filestem_resets(t, curr_file) ==
    [t EXCEPT !.filestem = curr_file, !.next_jump = 0, !.ret_idx = 0]

\* VMTranslator::update_filestem
update_filestem(t, curr_file) == [t EXCEPT !.filestem = curr_file]

(***************************************************************************)
(* parse (lib.rs 271-312).  A source line is a string; the result is       *)
(* [kind, cmd, err]: kind "Ok" with the Command, kind "Err" with the       *)
(* message of the Err returned, kind "Panic" when an index is out of       *)
(* bounds (the message is the panic's).                                    *)
(***************************************************************************)
IsSpace(c) == c \in {" ", "\t"}

\* the index of the last character of the token that starts at i
RECURSIVE TokenEnd(_, _)
TokenEnd(s, i) ==
    IF i + 1 <= Len(s) /\ ~IsSpace(SubSeq(s, i + 1, i + 1)) THEN TokenEnd(s, i + 1) ELSE i

RECURSIVE split_whitespace_from(_, _)
split_whitespace_from(s, i) ==
    IF i > Len(s) THEN << >>
    ELSE IF IsSpace(SubSeq(s, i, i)) THEN split_whitespace_from(s, i + 1)
    ELSE << SubSeq(s, i, TokenEnd(s, i)) >> \o split_whitespace_from(s, TokenEnd(s, i) + 1)

\* line.split_whitespace().collect()
split_whitespace(s) == split_whitespace_from(s, 1)

RECURSIVE trim_start(_)
trim_start(s) == IF s # "" /\ IsSpace(Head(s)) THEN trim_start(Tail(s)) ELSE s

RECURSIVE trim_end(_)
trim_end(s) ==
    IF s # "" /\ IsSpace(SubSeq(s, Len(s), Len(s)))
    THEN trim_end(SubSeq(s, 1, Len(s) - 1))
    ELSE s

\* line.trim()
trim(s) == trim_end(trim_start(s))

starts_with(s, p) == Len(s) >= Len(p) /\ SubSeq(s, 1, Len(p)) = p

\* char::to_digit(10), -1 for None
to_digit(c) ==
    CASE c = "0" -> 0 [] c = "1" -> 1 [] c = "2" -> 2 [] c = "3" -> 3 [] c = "4" -> 4
      [] c = "5" -> 5 [] c = "6" -> 6 [] c = "7" -> 7 [] c = "8" -> 8 [] c = "9" -> 9
      [] OTHER -> -1

Parsed(v) == [ok |-> TRUE, v |-> v, err |-> ""]
NotParsed(err) == [ok |-> FALSE, v |-> 0, err |-> err]

\* the digit loop of str::parse::<u16>: the digit is checked first, then the
\* multiplication and the addition for overflow
RECURSIVE parse_digits(_, _, _)
parse_digits(s, i, acc) ==
    IF i > Len(s) THEN Parsed(acc)
    ELSE LET x == to_digit(SubSeq(s, i, i))
         IN IF x < 0 THEN NotParsed("invalid digit found in string")
            ELSE IF acc * 10 + x >= U16
                 THEN NotParsed("number too large to fit in target type")
                 ELSE parse_digits(s, i + 1, acc * 10 + x)

\* parts[i].parse::<u16>().map_err(|e| e.to_string()): a lone sign is no number, a
\* leading "+" is skipped, "-" is not a sign of an unsigned type
parse_u16(s) ==
    IF s = "" THEN NotParsed("cannot parse integer from empty string")
    ELSE IF s \in {"+", "-"} THEN NotParsed("invalid digit found in string")
    ELSE IF Head(s) = "+" THEN parse_digits(s, 2, 0)
    ELSE parse_digits(s, 1, 0)

\* MemorySegment::from_str (lib.rs 356-374)
from_str(s) ==
    CASE s = "local" -> [ok |-> TRUE, seg |-> "Local", err |-> ""]
      [] s = "argument" -> [ok |-> TRUE, seg |-> "Argument", err |-> ""]
      [] s = "this" -> [ok |-> TRUE, seg |-> "This", err |-> ""]
      [] s = "that" -> [ok |-> TRUE, seg |-> "That", err |-> ""]
      [] s = "constant" -> [ok |-> TRUE, seg |-> "Constant", err |-> ""]
      [] s = "static" -> [ok |-> TRUE, seg |-> "Static", err |-> ""]
      [] s = "temp" -> [ok |-> TRUE, seg |-> "Temp", err |-> ""]
      [] s = "pointer" -> [ok |-> TRUE, seg |-> "Pointer", err |-> ""]
      [] OTHER -> [ok |-> FALSE, seg |-> "", err |-> "Received unknown memory segment " \o s]

NoCommand == [op |-> "None"]

Ok(command) == [kind |-> "Ok", cmd |-> command, err |-> ""]
Err(err) == [kind |-> "Err", cmd |-> NoCommand, err |-> err]

\* parts[i] on a vector that has no element i (i counted from 0)
IndexPanic(parts, i) ==
    [kind |-> "Panic", cmd |-> NoCommand,
     err |-> "index out of bounds: the len is " \o ToString(Len(parts))
             \o " but the index is " \o ToString(i)]

\* the arms "push" and "pop": from_str(parts[1])?, then parts[2].parse::<u16>()?
parse_segment_offset(parts, op) ==
    IF Len(parts) < 2 THEN IndexPanic(parts, 1)
    ELSE IF ~from_str(parts[2]).ok THEN Err(from_str(parts[2]).err)
    ELSE IF Len(parts) < 3 THEN IndexPanic(parts, 2)
    ELSE IF ~parse_u16(parts[3]).ok THEN Err(parse_u16(parts[3]).err)
    ELSE Ok(IF op = "Push" THEN Push(from_str(parts[2]).seg, parse_u16(parts[3]).v)
            ELSE Pop(from_str(parts[2]).seg, parse_u16(parts[3]).v))

\* the arms "function" and "call": parts[1].to_owned(), then parts[2].parse::<u16>()?
parse_name_count(parts, op) ==
    IF Len(parts) < 2 THEN IndexPanic(parts, 1)
    ELSE IF Len(parts) < 3 THEN IndexPanic(parts, 2)
    ELSE IF ~parse_u16(parts[3]).ok THEN Err(parse_u16(parts[3]).err)
    ELSE Ok(IF op = "Function" THEN Function(parts[2], parse_u16(parts[3]).v)
            ELSE Call(parts[2], parse_u16(parts[3]).v))

\* the arms "label", "goto" and "if-goto": parts[1].to_owned()
parse_name(parts, op) ==
    IF Len(parts) < 2 THEN IndexPanic(parts, 1)
    ELSE Ok(CASE op = "Label" -> Label(parts[2])
              [] op = "Goto" -> Goto(parts[2])
              [] op = "IfGoto" -> IfGoto(parts[2]))

\* parse (lib.rs 271-312)
parse(line) ==
    LET parts == split_whitespace(line)
    IN CASE parts = << >> -> IndexPanic(parts, 0)
         [] parts[1] = "push" -> parse_segment_offset(parts, "Push")
         [] parts[1] = "pop" -> parse_segment_offset(parts, "Pop")
         [] parts[1] = "add" -> Ok(Op("Add"))
         [] parts[1] = "sub" -> Ok(Op("Sub"))
         [] parts[1] = "neg" -> Ok(Op("Neg"))
         [] parts[1] = "not" -> Ok(Op("Not"))
         [] parts[1] = "or" -> Ok(Op("Or"))
         [] parts[1] = "and" -> Ok(Op("And"))
         [] parts[1] = "eq" -> Ok(Op("Eq"))
         [] parts[1] = "lt" -> Ok(Op("Lt"))
         [] parts[1] = "gt" -> Ok(Op("Gt"))
         [] parts[1] = "label" -> parse_name(parts, "Label")
         [] parts[1] = "goto" -> parse_name(parts, "Goto")
         [] parts[1] = "if-goto" -> parse_name(parts, "IfGoto")
         [] parts[1] = "function" -> parse_name_count(parts, "Function")
         [] parts[1] = "call" -> parse_name_count(parts, "Call")
         [] parts[1] = "return" -> Ok(Op("Return"))
         [] OTHER -> Err("Unknown command " \o parts[1])

(***************************************************************************)
(* The target machine.  The emitted text is read as the Hack assembler     *)
(* reads it: a label definition names the address of the next instruction, *)
(* a symbol that no label defines is a variable, allocated from address 16 *)
(* in order of first use.  Words are 16 bits wide; memory that was never   *)
(* written reads 0.                                                        *)
(***************************************************************************)
RECURSIVE Flatten(_)
Flatten(chunks) ==
    IF chunks = << >> THEN << >> ELSE Head(chunks) \o Flatten(Tail(chunks))

IsCode(line) == line.op # "L"

Predefined ==
    [s \in {"SP", "LCL", "ARG", "THIS", "THAT", "R0", "R1", "R2", "R3", "R4", "R5", "R6",
            "R7", "R8", "R9", "R10", "R11", "R12", "R13", "R14", "R15", "SCREEN", "KBD"} |->
        CASE s \in {"SP", "R0"} -> 0
          [] s \in {"LCL", "R1"} -> 1
          [] s \in {"ARG", "R2"} -> 2
          [] s \in {"THIS", "R3"} -> 3
          [] s \in {"THAT", "R4"} -> 4
          [] s = "R5" -> 5 [] s = "R6" -> 6 [] s = "R7" -> 7 [] s = "R8" -> 8
          [] s = "R9" -> 9 [] s = "R10" -> 10 [] s = "R11" -> 11 [] s = "R12" -> 12
          [] s = "R13" -> 13 [] s = "R14" -> 14 [] s = "R15" -> 15
          [] s = "SCREEN" -> 16384
          [] s = "KBD" -> 24576]

\* the address of line i: the number of instructions before it
AddrOf(lines, i) == Cardinality({j \in 1..(i - 1) : IsCode(lines[j])})

FirstLine(S) == CHOOSE i \in S : \A j \in S : i <= j

\* first pass: every (label) names the address of the instruction that follows it
\* (the first definition of a name stands)
LabelTable(lines) ==
    LET defs == {i \in 1..Len(lines) : lines[i].op = "L"}
    IN [s \in {lines[i].s : i \in defs} |->
            AddrOf(lines, FirstLine({i \in defs : lines[i].s = s}))]

\* second pass: every other symbol is a variable, from address 16 on in order of first use
VarTable(lines, known) ==
    LET uses == {i \in 1..Len(lines) :
                    lines[i].op = "@" /\ lines[i].k = "sym" /\ lines[i].s \notin known}
        first(s) == FirstLine({i \in uses : lines[i].s = s})
        names == {lines[i].s : i \in uses}
    IN [s \in names |-> 16 + Cardinality({x \in names : first(x) < first(s)})]

SymbolTable(lines) ==
    LET lt == LabelTable(lines)
        known == (DOMAIN Predefined) \cup (DOMAIN lt)
    IN Predefined @@ lt @@ VarTable(lines, known)

Rom(lines) == SelectSeq(lines, IsCode)

\* one entry per element of the writer: the addresses [lo, hi) its instructions occupy
RECURSIVE BlockPass(_, _, _)
BlockPass(chunks, i, addr) ==
    IF i > Len(chunks) THEN << >>
    ELSE LET n == Len(SelectSeq(chunks[i], IsCode))
         IN << [lo |-> addr, hi |-> addr + n] >> \o BlockPass(chunks, i + 1, addr + n)

RECURSIVE BitAnd(_, _)
BitAnd(x, y) ==
    IF x = 0 \/ y = 0 THEN 0
    ELSE (x % 2) * (y % 2) + 2 * BitAnd(x \div 2, y \div 2)

BitOr(x, y) == x + y - BitAnd(x, y)

Signed(v) == IF v >= 32768 THEN v - U16 ELSE v

Rd(r, a) == IF a \in DOMAIN r THEN r[a] ELSE 0
Wr(r, a, v) == [x \in (DOMAIN r) \cup {a} |-> IF x = a THEN v ELSE r[x]]

\* the ALU, on the comp mnemonics the translator emits
Comp(comp, a, d, m) ==
    CASE comp = "0" -> 0
      [] comp = "-1" -> U16 - 1
      [] comp = "A" -> a
      [] comp = "D" -> d
      [] comp = "M" -> m
      [] comp = "M+1" -> (m + 1) % U16
      [] comp = "M-1" -> (m - 1) % U16
      [] comp = "D+M" -> (d + m) % U16
      [] comp = "M-D" -> (m - d) % U16
      [] comp = "D-M" -> (d - m) % U16
      [] comp = "D-A" -> (d - a) % U16
      [] comp = "D|M" -> BitOr(d, m)
      [] comp = "D&M" -> BitAnd(d, m)
      [] comp = "-M" -> (U16 - m) % U16
      [] comp = "!M" -> (U16 - 1) - m

Taken(jump, v) ==
    CASE jump = "" -> FALSE
      [] jump = "JMP" -> TRUE
      [] jump = "JEQ" -> v = 0
      [] jump = "JNE" -> v # 0
      [] jump = "JLT" -> Signed(v) < 0
      [] jump = "JGT" -> Signed(v) > 0

Has(dest, reg) ==
    CASE reg = "A" -> dest \in {"A"}
      [] reg = "D" -> dest \in {"D"}
      [] reg = "M" -> dest \in {"M"}

\* the machine m = [pc, A, D, ram] after the instruction at m.pc
Step(m, r, tab) ==
    LET ins == r[m.pc + 1]
    IN IF ins.op = "@"
       THEN [m EXCEPT !.A = IF ins.k = "num" THEN ins.n ELSE tab[ins.s], !.pc = m.pc + 1]
       ELSE LET v == Comp(ins.comp, m.A, m.D, Rd(m.ram, m.A))
            IN [pc |-> IF Taken(ins.jump, v) THEN m.A ELSE m.pc + 1,
                A |-> IF Has(ins.dest, "A") THEN v ELSE m.A,
                D |-> IF Has(ins.dest, "D") THEN v ELSE m.D,
                ram |-> IF Has(ins.dest, "M") THEN Wr(m.ram, m.A, v) ELSE m.ram]

RECURSIVE Run(_, _, _, _)
Run(m, r, tab, n) ==
    IF n = 0 \/ m.pc >= Len(r) THEN m ELSE Run(Step(m, r, tab), r, tab, n - 1)

(***************************************************************************)
(* main (main.rs 9-59) and write_file_asm (main.rs 61-83).                 *)
(* The input is chosen as the run goes: which files the directory holds,   *)
(* where each file ends and what each line says.                           *)
(***************************************************************************)
\* the stems of the .vm files a directory can hold, and the directory's own name
FileStems == << "A", "A1" >>
DirStem == "proj"

\* the commands the lines of a file can hold
Commands ==
    {Push("Local", 2), Pop("Argument", 2)}
    \cup {Push("Constant", o) : o \in {0, 7}} \cup {Pop("Constant", o) : o \in {0, 7}}
    \cup {Push("Static", o) : o \in {0, 238, 239}} \cup {Pop("Static", o) : o \in {0, 238, 239}}
    \cup {Push("Temp", o) : o \in {0, 7, 8}} \cup {Pop("Temp", o) : o \in {0, 7, 8}}
    \cup {Push("Pointer", o) : o \in {0, 1, 2}} \cup {Pop("Pointer", o) : o \in {0, 1, 2}}
    \cup {Op(o) : o \in {"Add", "Neg", "Eq", "Lt", "Gt", "Return"}}
    \cup {Label("L"), Goto("L"), IfGoto("L")}
    \cup {Function("Foo", 1), Call("Foo", 1), Call("Sys.init", 0)}

\* the source line of a command
Text(command) ==
    LET segment(seg) ==
            CASE seg = "Local" -> "local" [] seg = "Argument" -> "argument"
              [] seg = "This" -> "this" [] seg = "That" -> "that"
              [] seg = "Constant" -> "constant" [] seg = "Static" -> "static"
              [] seg = "Temp" -> "temp" [] seg = "Pointer" -> "pointer"
    IN CASE command.op = "Push" ->
                "push " \o segment(command.seg) \o " " \o ToString(command.off)
         [] command.op = "Pop" ->
                "pop " \o segment(command.seg) \o " " \o ToString(command.off)
         [] command.op = "Add" -> "add" [] command.op = "Sub" -> "sub"
         [] command.op = "Neg" -> "neg" [] command.op = "Not" -> "not"
         [] command.op = "Or" -> "or" [] command.op = "And" -> "and"
         [] command.op = "Eq" -> "eq" [] command.op = "Lt" -> "lt"
         [] command.op = "Gt" -> "gt" [] command.op = "Return" -> "return"
         [] command.op = "Label" -> "label " \o command.name
         [] command.op = "Goto" -> "goto " \o command.name
         [] command.op = "IfGoto" -> "if-goto " \o command.name
         [] command.op = "Function" -> "function " \o command.name \o " " \o ToString(command.n)
         [] command.op = "Call" -> "call " \o command.name \o " " \o ToString(command.n)

\* the lines a file can hold: commands, a blank line and a comment, a label with the
\* name of a generated one, and lines that parse rejects
Lines ==
    {Text(c) : c \in Commands}
    \cup {"", "  // c"}
    \cup {"label JUMP_START_0"}
    \cup {"foo", "push local", "push constant 65536"}

\* the number of leading lines of a run that range over all of Lines
VariedLines == 2

\* the lines tried after the first VariedLines of a run: those that define labels or
\* advance a counter, a static access, a blank line, and lines that end the run
LaterLines ==
    {"eq", "call Foo 1", "label L", "label JUMP_START_0", "function Foo 1",
     "push static 0", "", "pop static 239", "pop constant 0", "foo", "push local"}

\* the lines the next line read can be, k lines having been read in the run
LinesAt(k) == IF k < VariedLines THEN Lines ELSE LaterLines

Self == [writer |-> writer, next_jump |-> next_jump, ret_idx |-> ret_idx,
         filestem |-> filestem, buf |-> buf, out |-> out, panic |-> ""]

Becomes(t) ==
    /\ writer' = t.writer
    /\ next_jump' = t.next_jump
    /\ ret_idx' = t.ret_idx
    /\ filestem' = t.filestem
    /\ buf' = t.buf
    /\ out' = t.out

\* what one write_prelude or write_asm call did, for the history: the call took the
\* translator from t0 to t1 while main was reading file
EntryOf(by, command, file, t0, t1) ==
    [by |-> by, cmd |-> command, file |-> file, first |-> Len(t0.writer) + 1,
     n |-> Len(t1.writer) - Len(t0.writer), nj |-> t0.next_jump, ri |-> t0.ret_idx,
     stem |-> t0.filestem, panic |-> t1.panic]

Entry(by, command, t) == EntryOf(by, command, curfile, Self, t)

\* io::Error::new(InvalidData, format!("Error at line {}: {}", n + 1, err)) (main.rs
\* 74-77): msg is the message main returns; n, file and text are the line it was
\* reading, for the history
ErrorAt(n, file, text, e) ==
    [kind |-> "Err", msg |-> "Error at line " \o ToString(n + 1) \o ": " \o e,
     n |-> n, file |-> file, text |-> text]

\* a panic while line n of file was read; msg is the panic's message
PanicAt(n, file, text, msg) ==
    [kind |-> "Panic", msg |-> msg, n |-> n, file |-> file, text |-> text]

\* line.is_empty() || line.starts_with("//") (main.rs 64)
Skipped(line) == line = "" \/ starts_with(line, "//")

NoMachine ==
    /\ rom = << >> /\ symtab = << >> /\ blocks = << >>
    /\ pc = 0 /\ A = 0 /\ D = 0 /\ ram = << >>
    /\ hist = << >> /\ frames = << >> /\ lastret = << >>

\* the state after VMTranslator::new (main.rs 21 and 42)
Init ==
    /\ \E m \in {"file", "dir"} :
          /\ mode = m
          /\ \E k \in 1..(IF m = "file" THEN 1 ELSE Len(FileStems)) :
                infiles = SubSeq(FileStems, 1, k)
          /\ filestem = IF m = "file" THEN FileStems[1] ELSE DirStem
    /\ writer = new(filestem).writer
    /\ next_jump = new(filestem).next_jump
    /\ ret_idx = new(filestem).ret_idx
    /\ buf = new(filestem).buf
    /\ out = new(filestem).out
    /\ at = "new"
    /\ curfile = ""
    /\ log = << >>
    /\ lineno = 0
    /\ nread = 0
    /\ failure = << >>
    /\ NoMachine

\* translator.write_prelude()? (main.rs 22 and 43)
WritePrelude ==
    /\ at = "new"
    /\ LET t == write_prelude(Self)
       IN /\ Becomes(t)
          /\ log' = Append(log, Entry("write_prelude", Op("Bootstrap"), t))
    /\ at' = "prelude"
    /\ UNCHANGED <<mode, infiles, curfile, lineno, nread, failure>>
    /\ UNCHANGED mvars

\* file mode: write_file_asm(&mut translator, content) (main.rs 24)
StartFile ==
    /\ at = "prelude"
    /\ mode = "file"
    /\ infiles # << >>
    /\ curfile' = Head(infiles)
    /\ infiles' = Tail(infiles)
    /\ at' = "lines"
    /\ lineno' = 0
    /\ UNCHANGED <<mode, log, nread, failure>>
    /\ UNCHANGED tvars
    /\ UNCHANGED mvars

\* the for loop with write_prelude inside it
UpdateFilestem_prelude_per_file ==
    /\ at \in {"prelude", "lines"}
    /\ mode = "dir"
    /\ infiles # << >>
    /\ LET t0 == update_filestem(Self, Head(infiles))
           t == write_prelude(t0)
       IN /\ Becomes(t)
          /\ log' = Append(log, EntryOf("write_prelude", Op("Bootstrap"), Head(infiles), t0, t))
    /\ curfile' = Head(infiles)
    /\ infiles' = Tail(infiles)
    /\ at' = "lines"
    /\ lineno' = 0
    /\ UNCHANGED <<mode, nread, failure>>
    /\ UNCHANGED mvars

\* dir mode: the head of the for loop, translator.update_filestem(&infile)
\* (main.rs 45-47); from "lines" it is also the end of the file before
UpdateFilestem ==
    /\ at \in {"prelude", "lines"}
    /\ mode = "dir"
    /\ infiles # << >>
    /\ Becomes(update_filestem(Self, Head(infiles)))
    /\ curfile' = Head(infiles)
    /\ infiles' = Tail(infiles)
    /\ at' = "lines"
    /\ lineno' = 0
    /\ UNCHANGED <<mode, log, nread, failure>>
    /\ UNCHANGED mvars

\* one line of the file that is blank or a comment: continue (main.rs 63-66)
SkipLine ==
    /\ at = "lines"
    /\ nread < MaxLines
    /\ \E text \in LinesAt(nread) : Skipped(trim(text))
    /\ lineno' = lineno + 1
    /\ nread' = nread + 1
    /\ UNCHANGED <<mode, at, infiles, curfile, log, failure>>
    /\ UNCHANGED tvars
    /\ UNCHANGED mvars

\* one line of the file that parses: translator.write_asm(command)? (main.rs 68-71);
\* a panic of write_asm unwinds main, which drops the translator
TranslateLine ==
    /\ at = "lines"
    /\ nread < MaxLines
    /\ \E text \in LinesAt(nread) :
          /\ ~Skipped(trim(text))
          /\ parse(trim(text)).kind = "Ok"
          /\ LET command == parse(trim(text)).cmd
                 t == write_asm(Self, command)
             IN /\ log' = Append(log, Entry("write_asm", command, t))
                /\ IF t.panic = ""
                   THEN /\ Becomes(t)
                        /\ at' = "lines"
                        /\ failure' = failure
                   ELSE /\ Becomes(drop(t))
                        /\ at' = "panicked"
                        /\ failure' = << PanicAt(lineno, curfile, text, panic_message(command)) >>
    /\ lineno' = lineno + 1
    /\ nread' = nread + 1
    /\ UNCHANGED <<mode, infiles, curfile>>
    /\ UNCHANGED mvars

\* one line of the file that does not parse: write_file_asm returns the Err it makes
\* of parse's (main.rs 73-78) and main returns it, or parse panics; either way the
\* translator is dropped
ParseFails ==
    /\ at = "lines"
    /\ nread < MaxLines
    /\ \E text \in LinesAt(nread) :
          /\ ~Skipped(trim(text))
          /\ parse(trim(text)).kind # "Ok"
          /\ LET p == parse(trim(text))
             IN IF p.kind = "Err"
                THEN /\ at' = "failed"
                     /\ failure' = << ErrorAt(lineno, curfile, text, p.err) >>
                ELSE /\ at' = "panicked"
                     /\ failure' = << PanicAt(lineno, curfile, text, p.err) >>
    /\ Becomes(drop(Self))
    /\ lineno' = lineno + 1
    /\ nread' = nread + 1
    /\ UNCHANGED <<mode, infiles, curfile, log>>
    /\ UNCHANGED mvars

\* the last file's lines are exhausted: main returns Ok(()) (main.rs 58) and the
\* translator is dropped
EndRun ==
    /\ at = "lines"
    /\ infiles = << >>
    /\ Becomes(drop(Self))
    /\ at' = "done"
    /\ UNCHANGED <<mode, infiles, curfile, log, lineno, nread, failure>>
    /\ UNCHANGED mvars

Next ==
    \/ WritePrelude
    \/ StartFile
    \/ UpdateFilestem
    \/ SkipLine
    \/ TranslateLine
    \/ ParseFails
    \/ EndRun

Spec == Init /\ [][Next]_vars

(***************************************************************************)
(* A whole run of main as a value: the translator, the history and the     *)
(* error it ends with on the input [mode, files], files a sequence of      *)
(* [stem, lines], lines the source lines of the file.                      *)
(***************************************************************************)
\* write_file_asm (main.rs 61-83) from line i of the file on (n = i - 1)
RECURSIVE write_file_asm(_, _, _, _)
write_file_asm(st, file, lines, i) ==
    IF i > Len(lines) \/ st.err # << >> THEN st
    ELSE LET line == trim(lines[i])
             p == parse(line)
             t1 == write_asm(st.t, p.cmd)
             read == [st EXCEPT !.lineno = i, !.nread = st.nread + 1]
         IN IF Skipped(line) THEN write_file_asm(read, file, lines, i + 1)
            ELSE IF p.kind = "Err"
            THEN [read EXCEPT !.err = << ErrorAt(i - 1, file, lines[i], p.err) >>]
            ELSE IF p.kind = "Panic"
            THEN [read EXCEPT !.err = << PanicAt(i - 1, file, lines[i], p.err) >>]
            ELSE write_file_asm(
                    [read EXCEPT
                        !.t = t1,
                        !.log = Append(st.log, EntryOf("write_asm", p.cmd, file, st.t, t1)),
                        !.err = IF t1.panic = "" THEN << >>
                                ELSE << PanicAt(i - 1, file, lines[i], panic_message(p.cmd)) >>],
                    file, lines, i + 1)

\* the for loop of main (main.rs 45-50) from file i on
RECURSIVE translate_files(_, _, _, _)
translate_files(st, m, files, i) ==
    IF i > Len(files) \/ st.err # << >> THEN st
    ELSE LET t1 == IF m = "dir" THEN update_filestem(st.t, files[i].stem) ELSE st.t
         IN translate_files(write_file_asm([st EXCEPT !.t = t1, !.lineno = 0],
                                           files[i].stem, files[i].lines, 1),
                            m, files, i + 1)

\* main (main.rs 9-59); however it ends, the translator is dropped
main(input) ==
    LET t0 == new(IF input.mode = "file" THEN input.files[1].stem ELSE DirStem)
        t1 == write_prelude(t0)
        st == translate_files(
                [t |-> t1,
                 log |-> << EntryOf("write_prelude", Op("Bootstrap"), "", t0, t1) >>,
                 err |-> << >>, lineno |-> 0, nread |-> 0],
                input.mode, input.files, 1)
    IN [st EXCEPT !.t = drop(st.t)]

(***************************************************************************)
(* The machine running the output of a run.                                *)
(***************************************************************************)
\* the logged call that wrote element i of the writer
ChunkEntry(lg, i) ==
    CHOOSE e \in {lg[j] : j \in 1..Len(lg)} : e.first <= i /\ i < e.first + e.n

\* the command element i of the writer was written for; write_prelude writes the
\* stack pointer's initialisation and then the call of Sys.init
ChunkCmd(lg, i) ==
    LET e == ChunkEntry(lg, i)
    IN IF e.by = "write_prelude"
       THEN (IF i = e.first THEN Op("Bootstrap") ELSE Call("Sys.init", 0))
       ELSE e.cmd

Blocks(chunks, lg) ==
    LET b == BlockPass(chunks, 1, 0)
    IN [i \in 1..Len(chunks) |->
          [lo |-> b[i].lo, hi |-> b[i].hi, cmd |-> ChunkCmd(lg, i),
           file |-> ChunkEntry(lg, i).file]]

\* the block that starts at address a, 0 when none does (a block without
\* instructions starts nowhere)
BlockAt(a) ==
    LET S == {i \in 1..Len(blocks) : blocks[i].lo = a /\ blocks[i].hi > a}
    IN IF S = {} THEN 0 ELSE CHOOSE i \in S : TRUE

Snap(m) == [blk |-> BlockAt(m.pc), pc |-> m.pc, A |-> m.A, D |-> m.D, ram |-> m.ram]

Machine == [pc |-> pc, A |-> A, D |-> D, ram |-> ram]

\* power-on contents of the four base registers
BootRegs ==
    { << 0, 0, 0, 0 >>, << 300, 400, 3000, 4000 >>, << 2, 1, 13, 3 >> }

BootRam(regs) == (1 :> regs[1]) @@ (2 :> regs[2]) @@ (3 :> regs[3]) @@ (4 :> regs[4])

RECURSIVE Pushes(_)
Pushes(n) == IF n = 0 THEN << >> ELSE Pushes(n - 1) \o << Push("Constant", 10 + n) >>

\* a file of the given commands, one source line each
File(stem, commands) ==
    [stem |-> stem, lines |-> [i \in 1..Len(commands) |-> Text(commands[i])]]

\* call Foo n from Sys.init, Foo declaring k locals and returning at once
CallInputs ==
    {[mode |-> "dir",
      files |-> << File("Foo", << Function("Foo", k), Op("Return") >>),
                   File("Sys", << Function("Sys.init", 0) >> \o Pushes(n)
                                  \o << Call("Foo", n), Push("Constant", 1) >>) >>]
        : n \in 0..MaxArgs, k \in 0..MaxLocals}

\* Sys.init calls Foo, Foo overwrites THIS and calls Bar, Bar overwrites THAT
NestedInput ==
    [mode |-> "dir",
     files |-> << File("Foo", << Function("Foo", 1), Push("Constant", 9), Pop("Pointer", 0),
                                 Push("Argument", 0), Call("Bar", 1), Op("Return"),
                                 Function("Bar", 0), Push("Constant", 3), Pop("Pointer", 1),
                                 Push("Constant", 1), Op("Return") >>),
                  File("Sys", << Function("Sys.init", 0), Push("Constant", 5),
                                 Call("Foo", 1), Call("Bar", 0) >>) >>]

\* Foo calls itself until its argument is 0
RecursiveInputs ==
    {[mode |-> "file",
      files |-> << File("Sys", << Function("Foo", 0), Push("Argument", 0), IfGoto("REC"),
                                  Push("Constant", 0), Op("Return"), Label("REC"),
                                  Push("Argument", 0), Push("Constant", 1), Op("Sub"),
                                  Call("Foo", 1), Op("Return"),
                                  Function("Sys.init", 0), Push("Constant", d),
                                  Call("Foo", 1) >>) >>]
        : d \in 1..2}

ScenOffsets(seg) ==
    CASE seg = "Static" -> {0, 238}
      [] seg = "Temp" -> {0, 7}
      [] seg = "Pointer" -> {0, 1}
      [] seg = "Constant" -> {0}
      [] OTHER -> {0, 2}

\* store 42 at a segment location, then push it and pop it back
PushPopInputs ==
    UNION {{[mode |-> "file",
             files |-> << File("Sys", << Function("Sys.init", 0), Push("Constant", 42) >>
                                      \o (IF seg = "Constant" THEN << >> ELSE << Pop(seg, off) >>)
                                      \o << Push(seg, off), Pop(seg, off),
                                            Push("Constant", 1) >>) >>]
              : off \in ScenOffsets(seg)} : seg \in MemorySegment}

ArithValues == {0, 7, 8, 32767, 40000}

BinaryInputs ==
    {[mode |-> "file",
      files |-> << File("Sys", << Function("Sys.init", 1), Push("Constant", a),
                                  Push("Constant", b), Op(o), Pop("Local", 0) >>) >>]
        : a \in ArithValues, b \in ArithValues, o \in {"Add", "Sub", "And", "Or"}}

UnaryInputs ==
    {[mode |-> "file",
      files |-> << File("Sys", << Function("Sys.init", 1), Push("Constant", a),
                                  Op(o), Pop("Local", 0) >>) >>]
        : a \in ArithValues, o \in {"Neg", "Not"}}

\* the commands leaving the 16-bit value v on the stack: values with the top bit set
\* are made as the complement of a constant
PushValue(v) ==
    IF v < 32768 THEN << Push("Constant", v) >>
    ELSE << Push("Constant", U16 - 1 - v), Op("Not") >>

CompareValues == {0, 1, 7, 32767, 32768, 65529, 65535}

\* x, then y, then a comparison
CompareInputs ==
    {[mode |-> "file",
      files |-> << File("Sys", << Function("Sys.init", 1) >> \o PushValue(x) \o PushValue(y)
                                  \o << Op(o), Pop("Local", 0) >>) >>]
        : x \in CompareValues, y \in CompareValues, o \in {"Eq", "Lt", "Gt"}}

BranchValues == {0, 1, 65535}

\* Sys.init calls Foo twice at the same stack height, on 0 and then on c; Foo writes
\* its two locals and branches on its argument
BranchInputs ==
    {[mode |-> "file",
      files |-> << File("Sys", << Function("Foo", 2), Push("Constant", 9), Pop("Local", 0),
                                  Push("Constant", 8), Pop("Local", 1), Push("Argument", 0),
                                  IfGoto("SKIP"), Push("Constant", 5), Goto("END"),
                                  Label("SKIP"), Push("Constant", 6), Label("END"),
                                  Op("Return"),
                                  Function("Sys.init", 0), Push("Constant", 0),
                                  Call("Foo", 1), Pop("Temp", 0) >>
                                  \o PushValue(c) \o << Call("Foo", 1) >>) >>]
        : c \in BranchValues}

\* the runs whose output is executed, each with the power-on registers it starts from
Boots ==
    ((CallInputs \cup {NestedInput} \cup RecursiveInputs \cup PushPopInputs) \X BootRegs)
    \cup ((BinaryInputs \cup UnaryInputs \cup CompareInputs \cup BranchInputs)
          \X {<< 300, 400, 3000, 4000 >>})

ExecInit ==
    \E boot \in Boots : \E r \in {main(boot[1])} :
        LET input == boot[1]
        IN /\ writer = r.t.writer
           /\ next_jump = r.t.next_jump
           /\ ret_idx = r.t.ret_idx
           /\ filestem = r.t.filestem
           /\ buf = r.t.buf
           /\ out = r.t.out
           /\ mode = input.mode
           /\ at = IF r.err = << >> THEN "done"
                   ELSE IF r.err[1].kind = "Err" THEN "failed" ELSE "panicked"
           /\ infiles = << >>
           /\ curfile = r.log[Len(r.log)].file
           /\ log = r.log
           /\ lineno = r.lineno
           /\ nread = r.nread
           /\ failure = r.err
           /\ rom = Rom(Flatten(r.t.writer))
           /\ symtab = SymbolTable(Flatten(r.t.writer))
           /\ blocks = Blocks(r.t.writer, r.log)
           /\ pc = 0 /\ A = 0 /\ D = 0
           /\ ram = BootRam(boot[2])
           /\ hist = << [blk |-> 1, pc |-> 0, A |-> 0, D |-> 0, ram |-> BootRam(boot[2])] >>
           /\ frames = << >>
           /\ lastret = << >>

\* the machine executes the instruction at pc
Tick ==
    /\ pc < Len(rom)
    /\ Len(hist) <= MaxBlocks
    /\ LET m == Step(Machine, rom, symtab)
           b == BlockAt(pc)
           cur == CHOOSE i \in 1..Len(blocks) : blocks[i].lo <= pc /\ pc < blocks[i].hi
           returns == blocks[cur].cmd.op = "Return" /\ pc = blocks[cur].hi - 1
           arrives == BlockAt(m.pc) # 0 \/ m.pc >= Len(rom)
           h == IF arrives THEN Append(hist, Snap(m)) ELSE hist
           f == IF returns /\ frames # << >> THEN SubSeq(frames, 1, Len(frames) - 1) ELSE frames
       IN /\ pc' = m.pc /\ A' = m.A /\ D' = m.D /\ ram' = m.ram
          /\ hist' = h
          /\ lastret' = IF returns
                        THEN << [call |-> IF frames = << >> THEN 0 ELSE frames[Len(frames)],
                                 ret |-> Len(hist), pc |-> m.pc, ram |-> m.ram] >>
                        ELSE lastret
          /\ frames' = IF BlockAt(m.pc) # 0 /\ blocks[BlockAt(m.pc)].cmd.op = "Call"
                       THEN Append(f, Len(h))
                       ELSE f
    /\ UNCHANGED <<rom, symtab, blocks>>
    /\ UNCHANGED tvars
    /\ UNCHANGED dvars

ExecNext == Tick

ExecSpec == ExecInit /\ [][ExecNext]_vars

(***************************************************************************)
(* Vocabulary of the properties.                                           *)
(***************************************************************************)
Entries == 1..Len(log)

\* the text a logged call wrote
TextOf(e) == Flatten(SubSeq(writer, e.first, e.first + e.n - 1))

LabelsDefined(lines) == {lines[i].s : i \in {j \in 1..Len(lines) : lines[j].op = "L"}}

SymbolsUsed(lines) ==
    {lines[i].s : i \in {j \in 1..Len(lines) : lines[j].op = "@" /\ lines[j].k = "sym"}}

IsCallEntry(e) == e.by = "write_prelude" \/ (e.cmd.op = "Call" /\ e.panic = "")
CalledName(e) == IF e.by = "write_prelude" THEN "Sys.init" ELSE e.cmd.name
IsCompareEntry(e) == e.by = "write_asm" /\ e.cmd.op \in {"Eq", "Lt", "Gt"}
IsStaticEntry(e) ==
    e.by = "write_asm" /\ e.cmd.op \in {"Push", "Pop"} /\ e.cmd.seg = "Static" /\ e.panic = ""

\* C2: every Call emitted, the bootstrap's included, defines exactly the label
\* <name>$ret.<k>, k the value of the call-site counter when the call was translated;
\* the k of two calls differ, also for the same name; the counter went up by one per call.
C2_ReturnLabelsUnique ==
    LET calls == {i \in Entries : IsCallEntry(log[i])}
    IN /\ \A i \in calls :
            /\ LabelsDefined(TextOf(log[i]))
                 = {CalledName(log[i]) \o "$ret." \o ToString(log[i].ri)}
            /\ log[i].ri = Cardinality({j \in calls : j < i})
       /\ \A i, j \in calls :
            i # j => /\ log[i].ri # log[j].ri
                     /\ LabelsDefined(TextOf(log[i])) \cap LabelsDefined(TextOf(log[j])) = {}
       /\ ret_idx = Cardinality(calls)

\* two calls of the same function in two different files, after the bootstrap's
C2_Witness ==
    /\ at = "done"
    /\ Len(log) = 3
    /\ log[2].cmd = Call("Foo", 1) /\ log[3].cmd = Call("Foo", 1)
    /\ log[2].file # log[3].file

\* C3: every Eq, Lt, Gt defines exactly JUMP_START_n and JUMP_END_n for one n, the
\* value of the jump counter when it was translated; n is greater than the n of every
\* comparison translated before; the counter went up by one per comparison.
C3_JumpLabelsUnique ==
    LET cmps == {i \in Entries : IsCompareEntry(log[i])}
    IN /\ \A i \in cmps :
            /\ LabelsDefined(TextOf(log[i]))
                 = {"JUMP_START_" \o ToString(log[i].nj), "JUMP_END_" \o ToString(log[i].nj)}
            /\ SymbolsUsed(TextOf(log[i])) \ {"SP"} = LabelsDefined(TextOf(log[i]))
            /\ log[i].nj = Cardinality({j \in cmps : j < i})
       /\ \A i, j \in cmps :
            i < j => /\ log[i].nj < log[j].nj
                     /\ LabelsDefined(TextOf(log[i])) \cap LabelsDefined(TextOf(log[j])) = {}
       /\ next_jump = Cardinality(cmps)

\* two comparisons of the same kind, a file boundary between them
C3_Witness ==
    /\ Len(log) = 3
    /\ log[2].cmd = Op("Lt") /\ log[3].cmd = Op("Lt")
    /\ log[2].file # log[3].file
    /\ next_jump = 2

RangeChecked == {"Static", "Temp", "Pointer"}

\* the documented bounds: Temp 0..7, Pointer 0..1, Static 0..238
InRange(seg, off) ==
    CASE seg = "Temp" -> off \in 0..7
      [] seg = "Pointer" -> off \in 0..1
      [] seg = "Static" -> off \in 0..238
      [] OTHER -> TRUE

\* the run stopped in the call logged last, which wrote nothing and left the counters
Rejected(i) ==
    /\ i = Len(log)
    /\ at = "panicked"
    /\ log[i].n = 0
    /\ Len(writer) = log[i].first - 1
    /\ next_jump = log[i].nj
    /\ ret_idx = log[i].ri

\* offsets tried against the next write_asm call, early in the run (what the call does
\* with them does not depend on what was translated before)
ProbeOffsets == {0, 1, 2, 3, 7, 8, 9, 237, 238, 239, 240, 255, 256, 65535}

C7_PopConstantRejected ==
    /\ \A i \in Entries :
          (log[i].by = "write_asm" /\ log[i].cmd.op \in {"Push", "Pop"}
           /\ log[i].cmd.seg = "Constant")
          => IF log[i].cmd.op = "Pop"
             THEN log[i].panic # "" /\ Rejected(i)
             ELSE log[i].panic = "" /\ log[i].n = 1
    /\ \A off \in (IF Len(log) <= 1 THEN ProbeOffsets ELSE {}) :
          /\ write_asm(Self, Pop("Constant", off)).panic # ""
          /\ write_asm(Self, Pop("Constant", off)).writer = writer
          /\ write_asm(Self, Push("Constant", off)).panic = ""
          /\ Len(write_asm(Self, Push("Constant", off)).writer) = Len(writer) + 1

\* push constant 0 is translated, then pop constant 0 stops the run
C7_Witness ==
    /\ at = "panicked"
    /\ Len(log) = 3
    /\ log[2].cmd = Push("Constant", 0)
    /\ log[3].cmd = Pop("Constant", 0)
    /\ Len(writer) = 3

\* every kind of command on every segment, tried against the next write_asm call
\* while the counters are at most one past their values after the bootstrap
ProbeCommands ==
    Commands
    \cup {Push(seg, 1) : seg \in MemorySegment} \cup {Pop(seg, 1) : seg \in MemorySegment}
    \cup {Op(o) : o \in {"Sub", "Not", "Or", "And"}}
    \cup {Function("Bar", 0), Call("Bar", 0)}

\* C8: a file boundary changes the file identifier and nothing else of the translator;
\* at every point of a run the jump counter is the number of comparisons translated
\* and the call-site counter the number of calls translated, the bootstrap's included.
C8_CountersSurviveFiles ==
    /\ [](/\ next_jump = Cardinality({i \in Entries : IsCompareEntry(log[i])})
          /\ ret_idx = Cardinality({i \in Entries : IsCallEntry(log[i])})
          /\ \A c \in (IF Len(log) <= 2 THEN ProbeCommands ELSE {}) :
                /\ write_asm(Self, c).next_jump
                     = IF c.op \in {"Eq", "Lt", "Gt"} THEN next_jump + 1 ELSE next_jump
                /\ write_asm(Self, c).ret_idx
                     = IF c.op = "Call" THEN ret_idx + 1 ELSE ret_idx
                /\ write_asm(Self, c).filestem = filestem)
    /\ [][curfile' # curfile /\ mode = "dir"
            => /\ next_jump' = next_jump
               /\ ret_idx' = ret_idx
               /\ writer' = writer
               /\ filestem' = curfile']_vars

\* a comparison and a call in the first file, the second file entered after them
C8_Witness ==
    /\ at = "lines"
    /\ mode = "dir"
    /\ Len(log) = 3
    /\ log[2].cmd = Op("Gt") /\ log[3].cmd = Call("Foo", 1)
    /\ curfile # log[3].file
    /\ next_jump = 1 /\ ret_idx = 2

\* C9: a Static access uses the one symbol <file>.<offset>, file the file the line came
\* from; two accesses share their symbol exactly when they agree in file and offset.
C9_StaticSymbols ==
    LET stat == {i \in Entries : IsStaticEntry(log[i])}
        sym(i) == SymbolsUsed(TextOf(log[i])) \ {"SP"}
    IN /\ \A i \in stat : sym(i) = {log[i].file \o "." \o ToString(log[i].cmd.off)}
       /\ \A i, j \in stat :
            (sym(i) = sym(j)) <=> (log[i].file = log[j].file /\ log[i].cmd.off = log[j].cmd.off)

\* push static 0 in one file and pop static 0 in the next
C9_Witness ==
    /\ Len(log) = 3
    /\ log[2].cmd = Push("Static", 0) /\ log[3].cmd = Pop("Static", 0)
    /\ log[2].file # log[3].file
    /\ log[2].file # "" /\ log[3].file # ""

\* the machine at power-on, the base registers holding regs
PowerOn(regs) == [pc |-> 0, A |-> 0, D |-> 0, ram |-> BootRam(regs)]

\* C10: in file mode and in dir mode alike the bootstrap is written once, first, and
\* stays first; run from power-on it sets SP to 256 and then calls Sys.init with no
\* argument: return address and the four base registers saved at 256..260, LCL = SP
\* = 261, ARG = 256, control at Sys.init.
C10_BootstrapOnceFirst ==
    /\ [](/\ at = "new" => log = << >> /\ writer = << >>
          /\ at # "new" =>
                /\ log # << >>
                /\ log[1].by = "write_prelude" /\ log[1].first = 1 /\ log[1].n = 2
                /\ \A i \in Entries : i > 1 => log[i].by = "write_asm" /\ log[i].first > 2
          /\ at = "prelude" =>
                LET lines == Flatten(writer)
                    r == Rom(lines)
                    tab == SymbolTable(lines)
                IN \A regs \in BootRegs :
                      LET m1 == Run(PowerOn(regs), r, tab, 4)
                          m2 == Run(m1, r, tab, Len(r) - 4)
                      IN /\ Rd(m1.ram, 0) = 256 /\ m1.pc = 4
                         /\ m2.pc = tab["Sys.init"]
                         /\ LabelsDefined(lines) = {"Sys.init$ret.0"}
                         /\ Rd(m2.ram, 256) = tab["Sys.init$ret.0"]
                         /\ tab["Sys.init$ret.0"] = Len(r)
                         /\ \A k \in 1..4 : Rd(m2.ram, 256 + k) = regs[k]
                         /\ Rd(m2.ram, 0) = 261
                         /\ Rd(m2.ram, 1) = 261
                         /\ Rd(m2.ram, 2) = 256)
    /\ [][\A i \in 1..Len(writer) : Len(writer') >= i /\ writer'[i] = writer[i]]_vars

\* a directory of two files, a line translated from each, the run complete
C10_Witness ==
    /\ at = "done"
    /\ mode = "dir"
    /\ Len(log) = 3
    /\ log[2].file = FileStems[1] /\ log[3].file = FileStems[2]

(***************************************************************************)
(* Vocabulary of the properties of the emitted code.  hist[j] is the       *)
(* machine on arrival at the first instruction of block hist[j].blk.       *)
(***************************************************************************)
Halted == pc >= Len(rom)

SPof(r) == Rd(r, 0)
CmdOf(j) == blocks[hist[j].blk].cmd

\* hist[j] .. hist[j + n] are arrivals at n + 1 blocks in a row (the last may be the
\* end of the code)
InARow(j, n) ==
    /\ j + n <= Len(hist)
    /\ hist[j].blk # 0
    /\ hist[j].blk + n - 1 <= Len(blocks)
    /\ \A d \in 0..(n - 1) : hist[j + d].blk = hist[j].blk + d
    /\ hist[j + n].pc = blocks[hist[j].blk + n - 1].hi

\* C1: a Return resumes at the address right after the jump of the call it belongs
\* to, the address the call's return label names, with LCL, ARG, THIS and THAT as
\* they were when the call sequence started; nested and recursive calls included.
C1_ReturnRestoresCaller ==
    lastret # << >> =>
        LET lr == lastret[1]
        IN /\ lr.call # 0
           /\ LET c == hist[lr.call]
                  b == blocks[c.blk]
              IN /\ b.cmd.op = "Call"
                 /\ lr.pc = b.hi
                 /\ rom[b.hi].jump = "JMP"
                 /\ \E k \in 0..ret_idx :
                       /\ (b.cmd.name \o "$ret." \o ToString(k)) \in DOMAIN symtab
                       /\ symtab[b.cmd.name \o "$ret." \o ToString(k)] = lr.pc
                       /\ rom[c.pc + 1].s = b.cmd.name \o "$ret." \o ToString(k)
                 /\ \A a \in 1..4 : Rd(lr.ram, a) = Rd(c.ram, a)

\* call Foo 0 of a Foo with two locals has returned, the caller's THIS being 3000
C1_Witness ==
    /\ lastret # << >>
    /\ lastret[1].call # 0
    /\ blocks[hist[lastret[1].call].blk].cmd = Call("Foo", 0)
    /\ \E i \in 1..Len(blocks) : blocks[i].cmd = Function("Foo", 2)
    /\ Rd(lastret[1].ram, 3) = 3000
    /\ Rd(lastret[1].ram, 1) = 261

\* the address Push and Pop on (seg, off) are about, from the block's file and the
\* registers in r
LocAddr(r, seg, off, file) ==
    CASE seg = "Local" -> (Rd(r, 1) + off) % U16
      [] seg = "Argument" -> (Rd(r, 2) + off) % U16
      [] seg = "This" -> (Rd(r, 3) + off) % U16
      [] seg = "That" -> (Rd(r, 4) + off) % U16
      [] seg = "Temp" -> 5 + off
      [] seg = "Pointer" -> 3 + off
      [] seg = "Static" -> symtab[file \o "." \o ToString(off)]

\* in a run that holds the lines push seg off, pop seg off for seg among segs and off
\* within the documented bounds, both are translated, and executed in a row they leave
\* the location and the stack pointer as they were
PushPopRestores(segs) ==
    /\ \A i \in Entries :
          (i < Len(log) /\ log[i].by = "write_asm" /\ log[i].cmd.op = "Push"
           /\ log[i].cmd.seg \in segs /\ InRange(log[i].cmd.seg, log[i].cmd.off)
           /\ log[i + 1].cmd = Pop(log[i].cmd.seg, log[i].cmd.off))
          => log[i].panic = "" /\ log[i + 1].panic = "" /\ log[i + 1].n = 1
    /\ \A j \in 1..Len(hist) :
          (InARow(j, 2) /\ CmdOf(j).op = "Push" /\ CmdOf(j).seg \in segs \ {"Constant"}
           /\ CmdOf(j + 1) = Pop(CmdOf(j).seg, CmdOf(j).off))
          => LET a == LocAddr(hist[j].ram, CmdOf(j).seg, CmdOf(j).off, blocks[hist[j].blk].file)
             IN /\ Rd(hist[j + 2].ram, a) = Rd(hist[j].ram, a)
                /\ SPof(hist[j + 2].ram) = SPof(hist[j].ram)

\* C4 as claimed: Constant among the segments
C4_Original == PushPopRestores(MemorySegment)

\* C4: for Local, Argument, This, That, Static 0..238, Temp 0..7 and Pointer 0..1,
\* Push followed at once by Pop of the same location is translated and leaves the
\* value at the location and the stack pointer as they were before the Push.
C4_PushPopRestores == PushPopRestores(MemorySegment \ {"Constant"})

\* push that 2, pop that 2 have run with THAT = 4000 and 42 stored at 4002
C4_Witness ==
    \E j \in 1..Len(hist) :
        /\ InARow(j, 2)
        /\ CmdOf(j) = Push("That", 2) /\ CmdOf(j + 1) = Pop("That", 2)
        /\ Rd(hist[j].ram, 4) = 4000
        /\ Rd(hist[j].ram, 4002) = 42
        /\ Rd(hist[j + 2].ram, 4002) = 42
        /\ SPof(hist[j].ram) = 261

Bit(x, i) == (x \div (2 ^ i)) % 2

\* z is the 16-bit result of the operation on x (pushed first) and y
IsResult(o, z, x, y) ==
    /\ z \in 0..(U16 - 1)
    /\ CASE o = "Add" -> z = (x + y) % U16
         [] o = "Sub" -> z = (x - y) % U16
         [] o = "And" -> \A i \in 0..15 : Bit(z, i) = 1 <=> (Bit(x, i) = 1 /\ Bit(y, i) = 1)
         [] o = "Or" -> \A i \in 0..15 : Bit(z, i) = 1 <=> (Bit(x, i) = 1 \/ Bit(y, i) = 1)
         [] o = "Neg" -> (z + x) % U16 = 0
         [] o = "Not" -> \A i \in 0..15 : Bit(z, i) # Bit(x, i)

BinaryOps == {"Add", "Sub", "And", "Or"}
UnaryOps == {"Neg", "Not"}

\* C5: push constant a, push constant b, a binary operation, pop local 0 leave a op b
\* in local 0 and the stack pointer where it was; a binary operation replaces the two
\* top elements by their result, a unary one the top element by its negation or
\* complement.
C5_ArithmeticResults ==
    /\ \A j \in 1..Len(hist) :
          (InARow(j, 4) /\ CmdOf(j).op = "Push" /\ CmdOf(j).seg = "Constant"
           /\ CmdOf(j + 1).op = "Push" /\ CmdOf(j + 1).seg = "Constant"
           /\ CmdOf(j + 2).op \in BinaryOps /\ CmdOf(j + 3) = Pop("Local", 0))
          => /\ IsResult(CmdOf(j + 2).op, Rd(hist[j + 4].ram, Rd(hist[j].ram, 1)),
                         CmdOf(j).off, CmdOf(j + 1).off)
             /\ SPof(hist[j + 4].ram) = SPof(hist[j].ram)
    /\ \A j \in 1..Len(hist) :
          (InARow(j, 1) /\ CmdOf(j).op \in BinaryOps)
          => LET sp == SPof(hist[j].ram)
             IN /\ SPof(hist[j + 1].ram) = sp - 1
                /\ IsResult(CmdOf(j).op, Rd(hist[j + 1].ram, sp - 2),
                            Rd(hist[j].ram, sp - 2), Rd(hist[j].ram, sp - 1))
    /\ \A j \in 1..Len(hist) :
          (InARow(j, 1) /\ CmdOf(j).op \in UnaryOps)
          => LET sp == SPof(hist[j].ram)
             IN /\ SPof(hist[j + 1].ram) = sp
                /\ IsResult(CmdOf(j).op, Rd(hist[j + 1].ram, sp - 1),
                            Rd(hist[j].ram, sp - 1), 0)

\* push constant 7, push constant 8, add, pop local 0 have run: local 0 holds 15
C5_Witness ==
    \E j \in 1..Len(hist) :
        /\ InARow(j, 4)
        /\ CmdOf(j) = Push("Constant", 7) /\ CmdOf(j + 1) = Push("Constant", 8)
        /\ CmdOf(j + 2) = Op("Add") /\ CmdOf(j + 3) = Pop("Local", 0)
        /\ Rd(hist[j + 4].ram, Rd(hist[j].ram, 1)) = 15
        /\ SPof(hist[j + 4].ram) = SPof(hist[j].ram)

(***************************************************************************)
(* Vocabulary of the properties of parse and of the way a run ends.        *)
(***************************************************************************)
\* the number of arguments each mnemonic of the input grammar requires
Required ==
    [m \in {"push", "pop", "function", "call"} |-> 2]
    @@ [m \in {"label", "goto", "if-goto"} |-> 1]
    @@ [m \in {"add", "sub", "neg", "not", "or", "and", "eq", "lt", "gt", "return"} |-> 0]

SegmentNames ==
    {"local", "argument", "this", "that", "constant", "static", "temp", "pointer"}

\* the line is one of those the claim says parse answers with a ParseError
Malformed(line) ==
    LET parts == split_whitespace(line)
    IN \/ parts[1] \notin DOMAIN Required
       \/ Len(parts) - 1 < Required[parts[1]]
       \/ parts[1] \in {"push", "pop"} /\ parts[2] \notin SegmentNames
       \/ Required[parts[1]] = 2 /\ ~parse_u16(parts[3]).ok

\* the run ended while a line was read that no write_asm call was made for
EndedInParse ==
    /\ failure # << >>
    /\ \/ Len(log) = 1
       \/ log[Len(log)].panic = ""

\* C11: a line read in a run that is malformed (unknown mnemonic, missing argument,
\* unknown segment, argument that is no u16) makes parse return an Err, which ends the
\* run as a returned error; a line that is not malformed gives exactly one Command,
\* which is handed to write_asm.
C11_ParseErrors ==
    /\ EndedInParse =>
          /\ Malformed(trim(failure[1].text))
          /\ failure[1].kind = "Err"
          /\ at = "failed"
    /\ \A i \in Entries :
          log[i].by = "write_asm" =>
             /\ log[i].cmd # NoCommand
             /\ ~Malformed(Text(log[i].cmd))
             /\ parse(Text(log[i].cmd)) = Ok(log[i].cmd)

\* sub occurs in s
Contains(s, sub) ==
    \E i \in 1..(Len(s) - Len(sub) + 1) : SubSeq(s, i, i + Len(sub) - 1) = sub

\* the run has ended by an error: the failing line was the last one read, and main
\* takes no further step
AbortedAt(f) ==
    /\ at \in {"failed", "panicked"}
    /\ lineno = f.n + 1
    /\ curfile = f.file
    /\ \A i \in Entries : log[i].by = "write_asm" /\ log[i].panic # "" => i = Len(log)
    /\ ~ENABLED Next

\* C12: the first error of a run (parse error, offset out of range, Pop on Constant)
\* ends the run: nothing is read or translated after the offending line, in this file
\* or a later one; and what is reported names the line by its 1-based number and the
\* file being read.
C12_FirstErrorAborts ==
    /\ at \in {"failed", "panicked"} => failure # << >>
    /\ failure # << >> =>
          /\ AbortedAt(failure[1])
          /\ Contains(failure[1].msg, ToString(failure[1].n + 1))
          /\ Contains(failure[1].msg, failure[1].file)

\* the length in bytes of the blocks i.. of the output, each line with its "\n" and
\* each block with the "\n" writeln! adds
RECURSIVE BlockBytesFrom(_, _)
BlockBytesFrom(chunks, i) ==
    IF i > Len(chunks) THEN 0 ELSE AsmBytes(chunks[i]) + 1 + BlockBytesFrom(chunks, i + 1)

\* the length in bytes of everything the run has emitted: the blocks, the blank line
\* of the bootstrap; the text of a comparison ends without "\n"
StreamBytes ==
    BlockBytesFrom(writer, 1)
    + (IF writer = << >> THEN 0 ELSE 1)
    - Cardinality({i \in Entries : IsCompareEntry(log[i])})

\* the translator with b bytes in its buffer, as it can be after a longer run
Buffered(b) == [Self EXCEPT !.buf = b]

\* C13: when a run has ended, by main returning Ok, by main returning an Err or by a
\* panic while a command was parsed or translated, the buffer is empty and every byte
\* emitted during the run has reached the output; before that no byte is lost, the
\* output holding what is not in the buffer; also when the buffer was nearly full before
\* the last block was written, so that the BufWriter wrote it out on its own.
C13_SinkFlushed ==
    /\ out + buf = StreamBytes
    /\ buf < BufCapacity
    /\ at \in {"done", "failed", "panicked"} => buf = 0 /\ out = StreamBytes
    /\ (at = "lines" /\ Len(log) <= 1) =>
          \A b \in {buf, BufCapacity - 300, BufCapacity - 40, BufCapacity - 1},
             c \in {Push("Constant", 7), Op("Eq"), Call("Foo", 1), Pop("Constant", 0)} :
                LET t == write_asm(Buffered(b), c)
                    n == IF c.op = "Pop" THEN 0
                         ELSE AsmBytes(t.writer[Len(t.writer)]) + (IF c.op = "Eq" THEN 0 ELSE 1)
                IN /\ t.out + t.buf = out + b + n
                   /\ t.buf < BufCapacity
                   /\ b + n >= BufCapacity => t.out >= out + b
                   /\ drop(t).buf = 0
                   /\ drop(t).out = out + b + n

\* a run that translated one line and then ended by the panic of pop constant 0:
\* the bootstrap and the one block are in the output
C13_Witness ==
    /\ at = "panicked"
    /\ failure # << >> /\ failure[1].text = "pop constant 0"
    /\ Len(writer) = 3
    /\ buf = 0
    /\ out = StreamBytes
    /\ out > 300

(***************************************************************************)
(* Properties of the call convention and of the branching commands.        *)
(***************************************************************************)
\* the cells of r1 and r2 outside S hold the same
SameExcept(r1, r2, S) == \A a \in ((DOMAIN r1) \cup (DOMAIN r2)) \ S : Rd(r1, a) = Rd(r2, a)

\* the address the label of function name stands for, -1 when no Function defines it
FunctionAddr(name) ==
    LET S == {i \in 1..Len(blocks) : blocks[i].cmd.op = "Function" /\ blocks[i].cmd.name = name}
    IN IF S = {} THEN -1 ELSE blocks[CHOOSE i \in S : TRUE].lo

\* C14: a Call(f, n) reached with stack pointer S leaves at S..S+4 the return address
\* (the address right after its jump), then LCL, ARG, THIS and THAT as they were; LCL
\* and the stack pointer are S+5, ARG is S-n; THIS, THAT, the n argument cells and every
\* other cell are as before; control is at the label of f.
C14_CallBuildsFrame ==
    \A j \in 1..(Len(hist) - 1) :
        (hist[j].blk # 0 /\ CmdOf(j).op = "Call") =>
            LET pre == hist[j].ram
                post == hist[j + 1].ram
                S == SPof(pre)
                n == CmdOf(j).n
            IN /\ Rd(post, S) = blocks[hist[j].blk].hi
               /\ \E k \in 0..ret_idx :
                     /\ ret_addr(CmdOf(j).name, k) \in DOMAIN symtab
                     /\ symtab[ret_addr(CmdOf(j).name, k)] = Rd(post, S)
               /\ \A k \in 1..4 : Rd(post, S + k) = Rd(pre, k)
               /\ Rd(post, 1) = S + 5
               /\ Rd(post, 0) = S + 5
               /\ Rd(post, 2) = S - n
               /\ Rd(post, 3) = Rd(pre, 3)
               /\ Rd(post, 4) = Rd(pre, 4)
               /\ \A a \in (S - n)..(S - 1) : Rd(post, a) = Rd(pre, a)
               /\ SameExcept(pre, post, {0, 1, 2} \cup (S..(S + 4)))
               /\ hist[j + 1].pc = FunctionAddr(CmdOf(j).name)

\* call Foo 2 from Sys.init, the two arguments at 261 and 262: the frame is at
\* 263..267, LCL is 268 and ARG 261
C14_Witness ==
    \E j \in 1..(Len(hist) - 1) :
        /\ hist[j].blk # 0
        /\ CmdOf(j) = Call("Foo", 2)
        /\ SPof(hist[j].ram) = 263
        /\ Rd(hist[j].ram, 261) = 11 /\ Rd(hist[j].ram, 262) = 12
        /\ Rd(hist[j].ram, 3) = 3000
        /\ Rd(hist[j + 1].ram, 264) = 261
        /\ Rd(hist[j + 1].ram, 266) = 3000
        /\ Rd(hist[j + 1].ram, 1) = 268
        /\ Rd(hist[j + 1].ram, 2) = 261
        /\ Rd(hist[j + 1].ram, 261) = 11

\* C15: a Return puts the value on top of the callee's stack where the first argument
\* of the call was (S-n, S the stack pointer when the call sequence started), leaves
\* the stack pointer one past it, and resumes right after the call's jump, also when
\* n = 0 and the return value lands on the cell that held the return address.
C15_ReturnDeliversValue ==
    (lastret # << >> /\ lastret[1].call # 0) =>
        LET lr == lastret[1]
            c == hist[lr.call]
            pre == hist[lr.ret].ram
            S == SPof(c.ram)
            n == blocks[c.blk].cmd.n
        IN /\ hist[lr.ret].blk # 0
           /\ CmdOf(lr.ret).op = "Return"
           /\ Rd(pre, 2) = S - n
           /\ Rd(lr.ram, S - n) = Rd(pre, SPof(pre) - 1)
           /\ SPof(lr.ram) = S - n + 1
           /\ lr.pc = blocks[c.blk].hi
           /\ (n = 0 => Rd(pre, S) = blocks[c.blk].hi)
           /\ \A a \in ((DOMAIN pre) \cup (DOMAIN lr.ram)) :
                 (a >= 16 /\ a < S - n) => Rd(lr.ram, a) = Rd(pre, a)

\* call Bar 0 with the stack pointer at 261: Bar returns 1, which lands at 261 on the
\* return address saved there, and the caller resumes with the stack pointer at 262
C15_Witness ==
    /\ lastret # << >>
    /\ lastret[1].call # 0
    /\ blocks[hist[lastret[1].call].blk].cmd = Call("Bar", 0)
    /\ SPof(hist[lastret[1].call].ram) = 262
    /\ Rd(hist[lastret[1].ret].ram, 262) = blocks[hist[lastret[1].call].blk].hi
    /\ Rd(lastret[1].ram, 262) = 1
    /\ SPof(lastret[1].ram) = 263
    /\ lastret[1].pc = blocks[hist[lastret[1].call].blk].hi

(***************************************************************************)
(* The comparisons.                                                        *)
(***************************************************************************)
\* hist[j] is the arrival at a comparison that has been executed
Compared(j) ==
    /\ j < Len(hist)
    /\ hist[j].blk # 0
    /\ CmdOf(j).op \in {"Eq", "Lt", "Gt"}

\* the operands found on arrival: x was pushed first
OperandX(j) == Rd(hist[j].ram, SPof(hist[j].ram) - 2)
OperandY(j) == Rd(hist[j].ram, SPof(hist[j].ram) - 1)

\* what the comparison left in place of the operands
Outcome(j) == Rd(hist[j + 1].ram, SPof(hist[j].ram) - 2)

\* x op y for x and y read as signed 16-bit integers
SignedHolds(op, x, y) ==
    CASE op = "Eq" -> Signed(x) = Signed(y)
      [] op = "Lt" -> Signed(x) < Signed(y)
      [] op = "Gt" -> Signed(x) > Signed(y)

\* the 16-bit difference x - y, read as signed, is zero / negative / positive
DifferenceHolds(op, x, y) ==
    LET d == Signed((x - y + U16) % U16)
    IN CASE op = "Eq" -> d = 0
         [] op = "Lt" -> d < 0
         [] op = "Gt" -> d > 0

\* x - y is a signed 16-bit integer
DifferenceFits(x, y) ==
    /\ Signed(x) - Signed(y) >= -32768
    /\ Signed(x) - Signed(y) <= 32767

\* C16: for all 16-bit operands the outcome of Eq, Lt, Gt is -1 exactly when x = y,
\* x < y, x > y holds of the operands read as signed 16-bit integers, and 0 otherwise;
\* the stack pointer goes down by one on both branches.
C16_SignedComparison ==
    \A j \in 1..Len(hist) :
        Compared(j) =>
            /\ Outcome(j) = IF SignedHolds(CmdOf(j).op, OperandX(j), OperandY(j))
                            THEN U16 - 1 ELSE 0
            /\ SPof(hist[j + 1].ram) = SPof(hist[j].ram) - 1

\* what the emitted comparisons compute: -1 when the 16-bit difference x - y is zero,
\* respectively negative, respectively positive as a signed integer, and 0 otherwise;
\* that is the signed comparison of x and y for Eq always, and for Lt and Gt whenever
\* x - y fits 16 bits.  The stack pointer goes down by one on both branches, no other
\* cell changes, and control falls through to the next command.
ComparesDifference ==
    \A j \in 1..Len(hist) :
        Compared(j) =>
            LET x == OperandX(j)
                y == OperandY(j)
                S == SPof(hist[j].ram)
                op == CmdOf(j).op
            IN /\ Outcome(j) = IF DifferenceHolds(op, x, y) THEN U16 - 1 ELSE 0
               /\ (op = "Eq" \/ DifferenceFits(x, y)) =>
                     (DifferenceHolds(op, x, y) <=> SignedHolds(op, x, y))
               /\ SPof(hist[j + 1].ram) = S - 1
               /\ SameExcept(hist[j].ram, hist[j + 1].ram, {0, S - 2})
               /\ hist[j + 1].pc = blocks[hist[j].blk].hi

\* 32767 lt -1: the difference 32768 reads as negative and the outcome is true
OverflowingLt ==
    \E j \in 1..Len(hist) :
        /\ Compared(j)
        /\ CmdOf(j).op = "Lt"
        /\ OperandX(j) = 32767
        /\ OperandY(j) = 65535
        /\ Outcome(j) = U16 - 1
        /\ SPof(hist[j + 1].ram) = SPof(hist[j].ram) - 1

(***************************************************************************)
(* The label definitions of a run.                                         *)
(***************************************************************************)
\* the calls that wrote a Label or a Function, whose names are the input's own
HandWritten == {i \in Entries : log[i].by = "write_asm" /\ log[i].cmd.op \in {"Label", "Function"}}

\* the calls that wrote labels the translator names: comparisons, calls, the bootstrap
Generating == {i \in Entries : IsCompareEntry(log[i]) \/ IsCallEntry(log[i])}

HandWrittenDistinct == \A i, j \in HandWritten : i # j => log[i].cmd.name # log[j].cmd.name

\* no name of the input is one of the labels the translator generated in the run
HandWrittenApart ==
    \A i \in HandWritten, j \in Generating : log[i].cmd.name \notin LabelsDefined(TextOf(log[j]))

\* the label definitions in the output, one per "(name)" line
Definitions == {j \in 1..Len(Flatten(writer)) : Flatten(writer)[j].op = "L"}

\* no name is defined by two "(name)" lines
DefinitionsDistinct == Cardinality(Definitions) = Cardinality(LabelsDefined(Flatten(writer)))

\* the claim as stated: pairwise distinct Label and Function names are enough for all
\* label definitions of the run to be distinct.
C17_Original == HandWrittenDistinct => DefinitionsDistinct

\* C17: when the Label and Function names of the input are pairwise distinct and none
\* of them is a label the translator generates in the run (JUMP_START_n, JUMP_END_n,
\* <name>$ret.<k>), all label definitions of the run are distinct; a Label or Function
\* name is defined verbatim, so a name that occurs twice or equals a generated label
\* is defined twice.
C17_LabelsDistinct ==
    /\ (HandWrittenDistinct /\ HandWrittenApart) => DefinitionsDistinct
    /\ \A i \in HandWritten : LabelsDefined(TextOf(log[i])) = {log[i].cmd.name}
    /\ (~HandWrittenDistinct \/ ~HandWrittenApart) => ~DefinitionsDistinct

\* the bootstrap's return label, a hand-written label and the two labels of a
\* comparison: four definitions, four names
C17_Witness ==
    /\ at = "done"
    /\ Len(log) = 3
    /\ log[2].cmd = Label("L")
    /\ log[3].cmd = Op("Eq")
    /\ HandWrittenDistinct /\ HandWrittenApart
    /\ Cardinality(Definitions) = 4
    /\ LabelsDefined(Flatten(writer)) = {"Sys.init$ret.0", "L", "JUMP_START_0", "JUMP_END_0"}

(***************************************************************************)
(* Pop on the segments addressed through a base register.                  *)
(***************************************************************************)
Indirect == {"Local", "Argument", "This", "That"}

\* hist[j] is the arrival at a Pop on one of the four segments that has been executed
PoppedIndirect(j) ==
    /\ j < Len(hist)
    /\ hist[j].blk # 0
    /\ CmdOf(j).op = "Pop"
    /\ CmdOf(j).seg \in Indirect

\* base register + offset, the base register as it is on arrival
Target(j) == LocAddr(hist[j].ram, CmdOf(j).seg, CmdOf(j).off, "")

\* the value on top of the stack on arrival
Top(j) == Rd(hist[j].ram, SPof(hist[j].ram) - 1)

\* the claim as stated: the old top is at the target, the stack pointer is one less,
\* and the base registers and every other cell but R13 are as they were.
C18_Original ==
    \A j \in 1..Len(hist) :
        PoppedIndirect(j) =>
            /\ Rd(hist[j + 1].ram, Target(j)) = Top(j)
            /\ SPof(hist[j + 1].ram) = SPof(hist[j].ram) - 1
            /\ \A a \in 1..4 : Rd(hist[j + 1].ram, a) = Rd(hist[j].ram, a)
            /\ SameExcept(hist[j].ram, hist[j + 1].ram, {0, 13, Target(j)})

\* C18: Pop on Local, Argument, This or That stores the old top of the stack at base
\* register + offset (the base register as it was before the pop) and changes no cell
\* but the target, the stack pointer and R13; when the target is none of the cells 0..4
\* the stack pointer is one less and the four base registers are as they were, and
\* when the target is one of them that register holds the popped value instead.
C18_PopStoresAtTarget ==
    \A j \in 1..Len(hist) :
        PoppedIndirect(j) =>
            LET pre == hist[j].ram
                post == hist[j + 1].ram
            IN /\ Rd(post, Target(j)) = Top(j)
               /\ SameExcept(pre, post, {0, 13, Target(j)})
               /\ Target(j) # 13 => Rd(post, 13) = Target(j)
               /\ Target(j) # 0 => SPof(post) = SPof(pre) - 1
               /\ Target(j) \notin 0..4 =>
                     \A a \in 1..4 : Rd(post, a) = Rd(pre, a)
               /\ hist[j + 1].pc = blocks[hist[j].blk].hi

\* pop that 2 with THAT = 4000: 42 goes from the top of the stack to 4002
C18_Witness ==
    \E j \in 1..Len(hist) :
        /\ PoppedIndirect(j)
        /\ CmdOf(j) = Pop("That", 2)
        /\ Rd(hist[j].ram, 4) = 4000
        /\ Top(j) = 42
        /\ Rd(hist[j].ram, 4002) = 0
        /\ Rd(hist[j + 1].ram, 4002) = 42
        /\ SPof(hist[j + 1].ram) = SPof(hist[j].ram) - 1
        /\ Rd(hist[j + 1].ram, 4) = 4000

(***************************************************************************)
(* Function, IfGoto and Goto.                                              *)
(***************************************************************************)
\* hist[j] is the arrival at a block of command kind op that has been executed
Executed(j, op) ==
    /\ j < Len(hist)
    /\ hist[j].blk # 0
    /\ CmdOf(j).op = op

\* the address the label name stands for, -1 when the name is no label of the output
LabelAddr(name) ==
    IF name \in LabelsDefined(Flatten(writer)) /\ name \in DOMAIN symtab THEN symtab[name] ELSE -1

\* C19: Function(name, k) entered with stack pointer S leaves the stack pointer at S+k
\* and 0 in each of the cells S..S+k-1, changing no other cell (for k = 0 its text is
\* the label alone); entered through a Call, LCL is S and the local slots 0..k-1 read 0.
\* IfGoto pops one value and goes to its label exactly when that value is not 0, and on
\* to the next command otherwise; Goto goes to its label and changes no cell.
C19_FunctionAndBranches ==
    /\ \A i \in 1..Len(blocks) :
          blocks[i].cmd.op = "Function" =>
             /\ blocks[i].hi - blocks[i].lo = 5 * blocks[i].cmd.n
             /\ LabelAddr(blocks[i].cmd.name) = blocks[i].lo
    /\ \A j \in 1..Len(hist) :
          Executed(j, "Function") =>
             LET pre == hist[j].ram
                 post == hist[j + 1].ram
                 S == SPof(pre)
                 k == CmdOf(j).n
             IN /\ SPof(post) = S + k
                /\ \A a \in S..(S + k - 1) : Rd(post, a) = 0
                /\ SameExcept(pre, post, {0} \cup (S..(S + k - 1)))
                /\ hist[j + 1].pc = blocks[hist[j].blk].hi
                /\ (j > 1 /\ hist[j - 1].blk # 0 /\ CmdOf(j - 1).op = "Call") =>
                      /\ Rd(post, 1) = S
                      /\ \A l \in 0..(k - 1) :
                            Rd(post, LocAddr(post, "Local", l, "")) = 0
    /\ \A j \in 1..Len(hist) :
          Executed(j, "IfGoto") =>
             LET pre == hist[j].ram
                 post == hist[j + 1].ram
                 S == SPof(pre)
             IN /\ SPof(post) = S - 1
                /\ SameExcept(pre, post, {0})
                /\ LabelAddr(CmdOf(j).name) # -1
                /\ hist[j + 1].pc = IF Rd(pre, S - 1) # 0
                                    THEN LabelAddr(CmdOf(j).name)
                                    ELSE blocks[hist[j].blk].hi
    /\ \A j \in 1..Len(hist) :
          Executed(j, "Goto") =>
             /\ hist[j + 1].ram = hist[j].ram
             /\ LabelAddr(CmdOf(j).name) # -1
             /\ hist[j + 1].pc = LabelAddr(CmdOf(j).name)

\* the second call of Foo: its two locals held 9 and 8 from the first call and read 0
\* after Function; in the first call if-goto fell through on 0 and goto END was
\* executed, in the second if-goto took its branch on -1
C19_Witness ==
    \E j, b, g \in 1..Len(hist) :
        /\ g < j /\ j < b
        /\ Executed(j, "Function")
        /\ CmdOf(j) = Function("Foo", 2)
        /\ hist[j - 1].blk # 0 /\ CmdOf(j - 1).op = "Call"
        /\ Rd(hist[j].ram, SPof(hist[j].ram)) = 9
        /\ Rd(hist[j].ram, SPof(hist[j].ram) + 1) = 8
        /\ Rd(hist[j + 1].ram, SPof(hist[j].ram)) = 0
        /\ Rd(hist[j + 1].ram, SPof(hist[j].ram) + 1) = 0
        /\ SPof(hist[j + 1].ram) = SPof(hist[j].ram) + 2
        /\ Executed(b, "IfGoto")
        /\ Rd(hist[b].ram, SPof(hist[b].ram) - 1) = 65535
        /\ hist[b + 1].pc = LabelAddr("SKIP")
        /\ hist[b + 1].pc # blocks[hist[b].blk].hi
        /\ Executed(g, "Goto")
        /\ hist[g + 1].pc = LabelAddr("END")

====
